---- MODULE Spec2Model ----
(***************************************************************************)
(* Amazon product scrapers: the requests/BeautifulSoup script and the      *)
(* Playwright script.  Each run is "print banner, acquire the page, run    *)
(* the twelve extractors in dict-literal order, print the record".         *)
(*                                                                         *)
(* Python str values are sequences of one-character strings, so that       *)
(* strip(), lower(), startswith(), the `in` substring test and the three   *)
(* regular expressions are computed character by character.                *)
(***************************************************************************)
EXTENDS Integers, Sequences, FiniteSets, TLC

VARIABLES
    script,        \* which script runs: "requests" or "playwright"
    pc,            \* position of the run inside main()/scrape_amazon_product()
    page,          \* the document being queried (soup / live page)
    product_data,  \* the dict under construction: sequence of [key, value]
    returned,      \* what scrape_amazon_product returned: "pending"/"dict"/"none"
    stdout,        \* everything printed to standard output, in order
    stderr,        \* everything printed to the error stream, in order
    exit_code,     \* status the process ends with (final once pc = "exited")
    loaded,        \* TRUE once requests.get / page.goto delivered a document
    acquisition,   \* "pending", "ok" or "failed"
    faults,        \* keys of the fields whose extractor hit a backend exception
    changes,       \* number of live-page mutations so far
    call,          \* ExtractSpec: the extractor call made
    result         \* ExtractSpec: what that call returned

vars == <<script, pc, page, product_data, returned, stdout, stderr, exit_code,
          loaded, acquisition, faults, changes, call, result>>

(***************************************************************************)
(* Bounds of the model.                                                    *)
(***************************************************************************)
MaxTextLen == 4      \* length of the enumerated review-count texts
MaxElems == 3        \* matched elements of a multi-element selector
MaxThumbs == 2       \* thumbnails in the thumbnail strip
MaxFaults == 1       \* backend exceptions injected in one run
MaxPageChanges == 1  \* mutations of the live page in one run

(***************************************************************************)
(* Python values.                                                          *)
(***************************************************************************)
PyNone == [none |-> TRUE, str |-> <<>>]
PyStr(s) == [none |-> FALSE, str |-> s]
\* truthiness of an Optional[str]: None and "" are falsy
Truthy(v) == ~v.none /\ Len(v.str) > 0

\* an extractor either returns a value or lets an exception escape
Return(v) == [exc |-> FALSE, val |-> v]
Raise == [exc |-> TRUE, val |-> PyNone]

(***************************************************************************)
(* Characters and str methods.                                             *)
(***************************************************************************)
Digits == {"0","1","2","3","4","5","6","7","8","9"}
UpperLetters == <<"A","B","C","D","E","F","G","H","I","J","K","L","M",
                  "N","O","P","Q","R","S","T","U","V","W","X","Y","Z">>
LowerLetters == <<"a","b","c","d","e","f","g","h","i","j","k","l","m",
                  "n","o","p","q","r","s","t","u","v","w","x","y","z">>
Whitespace == {" ", "\n", "\t"}

IsDigit(c) == c \in Digits
IsUpper(c) == \E i \in DOMAIN UpperLetters : UpperLetters[i] = c
IsSpace(c) == c \in Whitespace

LowerChar(c) ==
    IF IsUpper(c)
    THEN LowerLetters[CHOOSE i \in DOMAIN UpperLetters : UpperLetters[i] = c]
    ELSE c

\* str.lower()
lower(s) == [i \in 1..Len(s) |-> LowerChar(s[i])]

RECURSIVE lstrip(_)
lstrip(s) == IF s # <<>> /\ IsSpace(Head(s)) THEN lstrip(Tail(s)) ELSE s

RECURSIVE rstrip(_)
rstrip(s) ==
    IF s # <<>> /\ IsSpace(s[Len(s)]) THEN rstrip(SubSeq(s, 1, Len(s) - 1)) ELSE s

\* str.strip()
strip(s) == rstrip(lstrip(s))

\* s matches the literal lit at index i
MatchAt(s, i, lit) ==
    /\ i >= 1
    /\ i + Len(lit) - 1 <= Len(s)
    /\ \A k \in 1..Len(lit) : s[i + k - 1] = lit[k]

\* str.startswith(prefix)
startswith(s, prefix) == MatchAt(s, 1, prefix)

\* the `sub in s` test on strings
Contains(s, sub) == \E i \in 1..(Len(s) + 1) : MatchAt(s, i, sub)

\* str.replace(c, "")
RemoveChar(s, c) == SelectSeq(s, LAMBDA x : x # c)

\* join that also writes the separator after the last part
RECURSIVE join_trailing_sep(_, _)
join_trailing_sep(sep, parts) ==
    IF parts = <<>> THEN <<>>
    ELSE parts[1] \o sep \o join_trailing_sep(sep, Tail(parts))

\* sep.join(parts)
RECURSIVE join(_, _)
join(sep, parts) ==
    IF parts = <<>> THEN <<>>
    ELSE IF Len(parts) = 1 THEN parts[1]
    ELSE parts[1] \o sep \o join(sep, Tail(parts))

UpperSet == {UpperLetters[i] : i \in DOMAIN UpperLetters}

\* index one past the longest run, starting at i, of characters of class cls
\* (a greedy  [cls]*  of a regular expression)
RECURSIVE RunEnd(_, _, _)
RunEnd(s, i, cls) ==
    IF i <= Len(s) /\ s[i] \in cls THEN RunEnd(s, i + 1, cls) ELSE i

(***************************************************************************)
(* Program constants.                                                      *)
(***************************************************************************)
HTTP == <<"h","t","t","p">>
OUT_OF == <<"o","u","t"," ","o","f">>
LARGE_TOKEN == <<".","_","A","C","_","S","L","1","5","0","0","_",".">>
CATEGORY_SEP == <<" ",">"," ">>
out_of_stock_keywords ==
    << <<"o","u","t"," ","o","f"," ","s","t","o","c","k">>,
       <<"u","n","a","v","a","i","l","a","b","l","e">>,
       <<"c","u","r","r","e","n","t","l","y"," ",
         "u","n","a","v","a","i","l","a","b","l","e">> >>
MinFeatureLen == 5

\* the keys of the dict literal, in the order it lists them
FieldOrder == <<"title", "price", "avg_rating", "review_count", "availability",
                "out_of_stock", "description", "features", "images", "category",
                "ships_from", "sold_by", "url">>
TARGET_URL == "https://www.amazon.com/Logitech-Master-Bluetooth-Wireless-Receiver/dp/B0FB21526X"

(***************************************************************************)
(* The three regular expressions.                                          *)
(***************************************************************************)
\* re.search(r"([\d,]+)", s): the leftmost, longest run of digits and commas.
\* PyNone when there is no match, else group(1).
ReviewClass == Digits \cup {","}
re_search_review(s) ==
    IF \E i \in 1..Len(s) : s[i] \in ReviewClass
    THEN LET i == CHOOSE k \in 1..Len(s) :
                      /\ s[k] \in ReviewClass
                      /\ \A j \in 1..(k - 1) : s[j] \notin ReviewClass
             e == RunEnd(s, i, ReviewClass)
         IN  PyStr(SubSeq(s, i, e - 1))
    ELSE PyNone

\* (\d+\.?\d*)\s*out of  anchored at i: index one past group(1), or 0
RatingGroupEnd(s, i) ==
    LET d1 == RunEnd(s, i, Digits)
        d2 == IF d1 <= Len(s) /\ s[d1] = "." THEN d1 + 1 ELSE d1
        d3 == RunEnd(s, d2, Digits)
        w  == RunEnd(s, d3, Whitespace)
    IN  IF d1 > i /\ MatchAt(s, w, OUT_OF) THEN d3 ELSE 0

\* re.search(r"(\d+\.?\d*)\s*out of", s)
re_search_rating(s) ==
    IF \E i \in 1..Len(s) : RatingGroupEnd(s, i) # 0
    THEN LET i == CHOOSE k \in 1..Len(s) :
                      /\ RatingGroupEnd(s, k) # 0
                      /\ \A j \in 1..(k - 1) : RatingGroupEnd(s, j) = 0
         IN  PyStr(SubSeq(s, i, RatingGroupEnd(s, i) - 1))
    ELSE PyNone

\* \._[A-Z]+\d+_\.  anchored at i: index of the last matched character, or 0
SizeTokenEnd(s, i) ==
    IF MatchAt(s, i, <<".", "_">>)
    THEN LET u == RunEnd(s, i + 2, UpperSet)
             d == RunEnd(s, u, Digits)
         IN  IF u > i + 2 /\ d > u /\ MatchAt(s, d, <<"_", ".">>) THEN d + 1 ELSE 0
    ELSE 0

\* re.sub(r"\._[A-Z]+\d+_\.", "._AC_SL1500_.", s), scanning from index i
RECURSIVE re_sub_size_from(_, _)
re_sub_size_from(s, i) ==
    IF i > Len(s) THEN <<>>
    ELSE IF SizeTokenEnd(s, i) # 0
         THEN LARGE_TOKEN \o re_sub_size_from(s, SizeTokenEnd(s, i) + 1)
         ELSE <<s[i]>> \o re_sub_size_from(s, i + 1)

re_sub_size(s) == re_sub_size_from(s, 1)

(***************************************************************************)
(* Documents.  A single-element selector either matches no element or the  *)
(* first element, of which the extractors read the text; a multi-element   *)
(* selector yields the elements' raw texts in document order.  An <img>    *)
(* carries two optional attributes.                                        *)
(***************************************************************************)
NoElement == [found |-> FALSE, text |-> <<>>]
Element(t) == [found |-> TRUE, text |-> t]
NoImage == [found |-> FALSE, hires |-> PyNone, src |-> PyNone]
Image(h, u) == [found |-> TRUE, hires |-> h, src |-> u]

\* a valid document in which no selector matches anything
EmptyDocument ==
    [title |-> NoElement, price |-> NoElement, avg_rating |-> NoElement,
     review_count |-> NoElement, availability |-> NoElement,
     description |-> NoElement, ships_from |-> NoElement, sold_by |-> NoElement,
     features |-> <<>>, main_img |-> NoImage, thumbs |-> <<>>, category |-> <<>>]

(***************************************************************************)
(* requests/BeautifulSoup extractors.  None of them has a try/except: an   *)
(* exception of the backend escapes the extractor (Raise).                 *)
(***************************************************************************)
\* element.get_text(strip=True) of an element with one text node
get_text(el) == strip(el.text)

\* select_one(sel); if element: return element.get_text(strip=True); return None
soup_select_text(el) == IF el.found THEN PyStr(get_text(el)) ELSE PyNone

soup_extract_title(soup, raises) ==
    IF raises THEN Raise ELSE Return(soup_select_text(soup.title))

soup_extract_price(soup, raises) ==
    IF raises THEN Raise ELSE Return(soup_select_text(soup.price))

soup_extract_avg_rating(soup, raises) ==
    IF raises THEN Raise
    ELSE IF soup.avg_rating.found
         THEN Return(re_search_rating(get_text(soup.avg_rating)))
         ELSE Return(PyNone)

\* match.group(1).replace(",", "") when the pattern matched
review_count_of(text) ==
    LET match == re_search_review(text)
    IN  IF ~match.none THEN PyStr(RemoveChar(match.str, ",")) ELSE PyNone

soup_extract_review_count(soup, raises) ==
    IF raises THEN Raise
    ELSE IF soup.review_count.found
         THEN Return(review_count_of(get_text(soup.review_count)))
         ELSE Return(PyNone)

soup_extract_availability(soup, raises) ==
    IF raises THEN Raise ELSE Return(soup_select_text(soup.availability))

\* any(keyword in availability.lower() for keyword in out_of_stock_keywords)
any_keyword(availability) ==
    \E k \in DOMAIN out_of_stock_keywords :
        Contains(lower(availability), out_of_stock_keywords[k])

\* the body of extract_out_of_stock after its own availability query
out_of_stock_of(availability) ==
    IF Truthy(availability) THEN any_keyword(availability.str) ELSE FALSE

soup_extract_out_of_stock(soup, raises) ==
    LET availability == soup_extract_availability(soup, raises)
    IN  IF availability.exc THEN Raise
        ELSE Return(out_of_stock_of(availability.val))

soup_extract_description(soup, raises) ==
    IF raises THEN Raise ELSE Return(soup_select_text(soup.description))

\* features_loop with the length test written  >=  instead of  >
RECURSIVE features_loop_keeps_five(_, _)
features_loop_keeps_five(elements, n) ==
    IF n = 0 THEN <<>>
    ELSE LET text == strip(elements[n])
             rest == features_loop_keeps_five(elements, n - 1)
         IN  IF Len(text) > 0 /\ Len(text) >= MinFeatureLen
             THEN Append(rest, text)
             ELSE rest

\* the loop over the first n matched elements
RECURSIVE features_loop(_, _)
features_loop(elements, n) ==
    IF n = 0 THEN <<>>
    ELSE LET text == strip(elements[n])
             rest == features_loop(elements, n - 1)
         IN  IF Len(text) > 0 /\ Len(text) > MinFeatureLen
             THEN Append(rest, text)
             ELSE rest

soup_extract_features(soup, failAt) ==
    IF failAt # 0 THEN Raise
    ELSE Return(features_loop(soup.features, Len(soup.features)))

\* main_img.get("data-old-hires") or main_img.get("src")
img_url_of(img) == IF Truthy(img.hires) THEN img.hires ELSE img.src

\* the list after the main-image stage
main_image_stage(img) ==
    IF img.found
    THEN LET img_url == img_url_of(img)
         IN  IF Truthy(img_url) /\ startswith(img_url.str, HTTP)
             THEN <<img_url.str>>
             ELSE <<>>
    ELSE <<>>

InList(x, list) == \E i \in DOMAIN list : list[i] = x

\* add_thumbnail without the `not in images` test
add_thumbnail_no_dedup(images, img_url) ==
    IF Truthy(img_url) /\ startswith(img_url.str, HTTP)
    THEN Append(images, re_sub_size(img_url.str))
    ELSE images

\* one iteration of the thumbnail loop
add_thumbnail(images, img_url) ==
    IF Truthy(img_url) /\ startswith(img_url.str, HTTP)
    THEN LET large_url == re_sub_size(img_url.str)
         IN  IF ~InList(large_url, images) THEN Append(images, large_url)
             ELSE images
    ELSE images

\* the thumbnail loop over the first n thumbnails
RECURSIVE thumbnail_loop(_, _, _)
thumbnail_loop(images, thumbs, n) ==
    IF n = 0 THEN images
    ELSE add_thumbnail(thumbnail_loop(images, thumbs, n - 1), thumbs[n])

soup_extract_images(soup, failAt) ==
    IF failAt # 0 THEN Raise
    ELSE Return(thumbnail_loop(main_image_stage(soup.main_img),
                               soup.thumbs, Len(soup.thumbs)))

soup_extract_category(soup, raises) ==
    IF raises THEN Raise
    ELSE IF Len(soup.category) > 0
         THEN Return(PyStr(join(CATEGORY_SEP,
                  [i \in 1..Len(soup.category) |-> strip(soup.category[i])])))
         ELSE Return(PyNone)

soup_extract_ships_from(soup, raises) ==
    IF raises THEN Raise ELSE Return(soup_select_text(soup.ships_from))

soup_extract_sold_by(soup, raises) ==
    IF raises THEN Raise ELSE Return(soup_select_text(soup.sold_by))

(***************************************************************************)
(* Playwright extractors.  Each body is wrapped in try/except Exception:   *)
(* pass, so an exception of the backend ends the body and the function     *)
(* returns what it had built so far (None, or the list as it stands).      *)
(***************************************************************************)
\* element.inner_text().strip()
inner_text_strip(el) == strip(el.text)

page_select_text(el) == IF el.found THEN PyStr(inner_text_strip(el)) ELSE PyNone

page_extract_title(pg, raises) ==
    IF raises THEN Return(PyNone) ELSE Return(page_select_text(pg.title))

page_extract_price(pg, raises) ==
    IF raises THEN Return(PyNone) ELSE Return(page_select_text(pg.price))

page_extract_avg_rating(pg, raises) ==
    IF raises THEN Return(PyNone)
    ELSE IF pg.avg_rating.found
         THEN Return(re_search_rating(inner_text_strip(pg.avg_rating)))
         ELSE Return(PyNone)

page_extract_review_count(pg, raises) ==
    IF raises THEN Return(PyNone)
    ELSE IF pg.review_count.found
         THEN Return(review_count_of(inner_text_strip(pg.review_count)))
         ELSE Return(PyNone)

page_extract_availability(pg, raises) ==
    IF raises THEN Return(PyNone) ELSE Return(page_select_text(pg.availability))

\* issues its own availability query against the page as it is now
page_extract_out_of_stock(pg, raises) ==
    Return(out_of_stock_of(page_extract_availability(pg, raises).val))

page_extract_description(pg, raises) ==
    IF raises THEN Return(PyNone) ELSE Return(page_select_text(pg.description))

\* failAt = 0: no exception; 1: query_selector_all raises;
\* 1 + i: inner_text() of the i-th element raises
page_extract_features(pg, failAt) ==
    IF failAt = 0 THEN Return(features_loop(pg.features, Len(pg.features)))
    ELSE IF failAt = 1 THEN Return(<<>>)
    ELSE Return(features_loop(pg.features, failAt - 2))

\* failAt = 0: no exception; 1: the main-image query or attribute read raises;
\* 2: query_selector_all of the thumbnails raises;
\* 2 + i: get_attribute of the i-th thumbnail raises
page_extract_images(pg, failAt) ==
    IF failAt = 0
    THEN Return(thumbnail_loop(main_image_stage(pg.main_img),
                               pg.thumbs, Len(pg.thumbs)))
    ELSE IF failAt = 1 THEN Return(<<>>)
    ELSE IF failAt = 2 THEN Return(main_image_stage(pg.main_img))
    ELSE Return(thumbnail_loop(main_image_stage(pg.main_img),
                               pg.thumbs, failAt - 3))

page_extract_category(pg, raises) ==
    IF raises THEN Return(PyNone)
    ELSE IF Len(pg.category) > 0
         THEN Return(PyStr(join(CATEGORY_SEP,
                  [i \in 1..Len(pg.category) |-> strip(pg.category[i])])))
         ELSE Return(PyNone)

page_extract_ships_from(pg, raises) ==
    IF raises THEN Return(PyNone) ELSE Return(page_select_text(pg.ships_from))

page_extract_sold_by(pg, raises) ==
    IF raises THEN Return(PyNone) ELSE Return(page_select_text(pg.sold_by))

(***************************************************************************)
(* Inputs of the extractor calls explored by ExtractSpec.                  *)
(***************************************************************************)
\* all texts over an alphabet up to a length
Texts(alphabet, n) == UNION {[1..k -> alphabet] : k \in 0..n}
\* all element lists over a set of texts up to a length
Lists(texts, n) == UNION {[1..k -> texts] : k \in 0..n}

ReviewAlphabet == {"1", "2", ",", "r", " "}
ReviewSample == <<"1",",","2","3","4"," ","r","a","t","i","n","g","s">>
ReviewTexts == Texts(ReviewAlphabet, MaxTextLen) \cup {ReviewSample}

Electronics == <<"E","l","e","c","t","r","o","n","i","c","s">>
Computers == <<"C","o","m","p","u","t","e","r","s">>
Mice == <<"M","i","c","e">>
CategoryTexts == {Electronics, Computers, Mice, <<" ","M","i","c","e","\n">>, <<>>}

FeatureTexts ==
    { <<>>, <<"\n">>,
      <<"a","b","c","d","e">>, <<"a","b","c","d","e","f">>,
      <<" ","a","b","c","d","e"," ">>, <<" ","a","b","c","d","e","f","\n">> }

UrlThumbX == <<"h","t","t","p",":","/","/","a",".","_","S","X","3","_",".","j">>
UrlThumbY == <<"h","t","t","p",":","/","/","a",".","_","S","Y","9","_",".","j">>
UrlLarge == <<"h","t","t","p",":","/","/","a",".","_","A","C","_","S","L",
              "1","5","0","0","_",".","j">>
UrlRelative == <<"/","i",".","j">>
UrlHttpDir == <<"h","t","t","p","d","/","i",".","j">>
\* attribute values: missing, empty, absolute http URLs, a relative path, and
\* a relative path whose first directory is named "httpd"
Attrs == {PyNone, PyStr(<<>>), PyStr(UrlThumbX), PyStr(UrlThumbY),
          PyStr(UrlLarge), PyStr(UrlRelative), PyStr(UrlHttpDir)}
MainImages == {NoImage} \cup {Image(h, u) : h \in Attrs, u \in Attrs}

NoCall == [fn |-> "none", backend |-> "none", doc |-> EmptyDocument, fail |-> 0]
NoResult == Return(PyNone)

(***************************************************************************)
(* ExtractSpec: one extractor call of the running script on an enumerated  *)
(* document.                                                               *)
(***************************************************************************)
PipelineVars == <<script, pc, page, product_data, returned, stdout, stderr,
                  exit_code, loaded, acquisition, faults, changes>>

Call_extract_review_count ==
    /\ call.fn = "none"
    /\ UNCHANGED PipelineVars
    /\ \E raises \in BOOLEAN,
          el \in {NoElement} \cup {Element(t) : t \in ReviewTexts} :
        LET doc == [EmptyDocument EXCEPT !.review_count = el]
        IN  /\ call' = [fn |-> "extract_review_count", backend |-> script,
                        doc |-> doc, fail |-> IF raises THEN 1 ELSE 0]
            /\ result' = IF script = "requests"
                         THEN soup_extract_review_count(doc, raises)
                         ELSE page_extract_review_count(doc, raises)

Call_extract_category ==
    /\ call.fn = "none"
    /\ UNCHANGED PipelineVars
    /\ \E raises \in BOOLEAN,
          els \in Lists(CategoryTexts, MaxElems) :
        LET doc == [EmptyDocument EXCEPT !.category = els]
        IN  /\ call' = [fn |-> "extract_category", backend |-> script,
                        doc |-> doc, fail |-> IF raises THEN 1 ELSE 0]
            /\ result' = IF script = "requests"
                         THEN soup_extract_category(doc, raises)
                         ELSE page_extract_category(doc, raises)

Call_extract_features ==
    /\ call.fn = "none"
    /\ UNCHANGED PipelineVars
    /\ \E els \in Lists(FeatureTexts, MaxElems) :
        \E failAt \in 0..(IF script = "requests" THEN 1 ELSE Len(els) + 1) :
            LET doc == [EmptyDocument EXCEPT !.features = els]
            IN  /\ call' = [fn |-> "extract_features", backend |-> script,
                            doc |-> doc, fail |-> failAt]
                /\ result' = IF script = "requests"
                             THEN soup_extract_features(doc, failAt)
                             ELSE page_extract_features(doc, failAt)

Call_extract_images ==
    /\ call.fn = "none"
    /\ UNCHANGED PipelineVars
    /\ \E img \in MainImages, ths \in Lists(Attrs, MaxThumbs) :
        \E failAt \in 0..(IF script = "requests" THEN 1 ELSE Len(ths) + 2) :
            LET doc == [EmptyDocument EXCEPT !.main_img = img, !.thumbs = ths]
            IN  /\ call' = [fn |-> "extract_images", backend |-> script,
                            doc |-> doc, fail |-> failAt]
                /\ result' = IF script = "requests"
                             THEN soup_extract_images(doc, failAt)
                             ELSE page_extract_images(doc, failAt)

ExtractNext ==
    \/ Call_extract_review_count
    \/ Call_extract_category
    \/ Call_extract_features
    \/ Call_extract_images

(***************************************************************************)
(* The documents a run can be served.                                      *)
(***************************************************************************)
InStockDocument ==
    [title |-> Element(<<" ","M","o","u","s","e","\n">>),
     price |-> Element(<<"$","9",".","9","9">>),
     avg_rating |-> Element(<<"4",".","5"," ","o","u","t"," ","o","f"," ","5"," ","s","t","a","r","s">>),
     review_count |-> Element(ReviewSample),
     availability |-> Element(<<" ","I","n"," ","S","t","o","c","k"," ">>),
     description |-> Element(<<"A"," ","m","o","u","s","e",".">>),
     ships_from |-> Element(<<"A","m","a","z","o","n">>),
     sold_by |-> Element(<<"A","m","a","z","o","n">>),
     features |-> << <<" ","a","b","c","d","e","f","\n">>,
                     <<"a","b","c","d","e">> >>,
     main_img |-> Image(PyStr(UrlLarge), PyStr(UrlThumbX)),
     thumbs |-> << PyStr(UrlThumbX), PyStr(UrlThumbY) >>,
     category |-> << Electronics, Computers, Mice >>]

UnavailableDocument ==
    [EmptyDocument EXCEPT
        !.title = Element(<<"M","o","u","s","e">>),
        !.availability = Element(<<"C","u","r","r","e","n","t","l","y"," ","u","n","a","v","a","i","l","a","b","l","e",".">>)]

Documents == {EmptyDocument, InStockDocument, UnavailableDocument}

(***************************************************************************)
(* The run: main() and scrape_amazon_product() of either script.           *)
(***************************************************************************)
Scripts == {"requests", "playwright"}

\* the extractor positions, in the order the dict literal evaluates them
ExtractPcs == {"title", "price", "avg_rating", "review_count", "availability",
               "out_of_stock", "description", "features", "images", "category",
               "ships_from", "sold_by"}

PositionOf(key) == CHOOSE i \in DOMAIN FieldOrder : FieldOrder[i] = key
NextPc(key) == FieldOrder[PositionOf(key) + 1]

\* what print() appends to a stream
print_to(stream, kind, data) == Append(stream, [kind |-> kind, data |-> data])

Init ==
    /\ script \in Scripts
    /\ pc = "main"
    /\ page = EmptyDocument
    /\ product_data = <<>>
    /\ returned = "pending"
    /\ stdout = <<>>
    /\ stderr = <<>>
    /\ exit_code = 0
    /\ loaded = FALSE
    /\ acquisition = "pending"
    /\ faults = {}
    /\ changes = 0
    /\ call = NoCall
    /\ result = NoResult

ExtractVars == <<call, result>>

\* main(): print(f"scraping: {TARGET_URL}\n") goes to standard output
main_start ==
    /\ pc = "main"
    /\ stdout' = print_to(stdout, "scraping", <<>>)
    /\ pc' = "acquire"
    /\ UNCHANGED <<script, page, product_data, returned, stderr, exit_code,
                   loaded, acquisition, faults, changes, ExtractVars>>

\* ReturnNone without the return: the message is printed and the run goes
\* on to the extractors
ReturnNone_falls_through(message) ==
    /\ stderr' = print_to(stderr, message, <<>>)
    /\ returned' = returned
    /\ pc' = "title"

\* scrape_amazon_product returns None after an error message on stderr
ReturnNone(message) ==
    /\ stderr' = print_to(stderr, message, <<>>)
    /\ returned' = "none"
    /\ pc' = "emit"

FetchOutcomes == {"ok", "Timeout", "ConnectionError", "HTTPError", "RequestException"}

FetchMessage(outcome) ==
    CASE outcome = "Timeout" -> "error: request timed out"
      [] outcome = "ConnectionError" -> "error: failed to connect to the server"
      [] outcome = "HTTPError" -> "error: http error occurred"
      [] OTHER -> "error: request failed"

\* requests script: fetch_page(url) and the `if not soup: return None` that
\* follows it.  A BeautifulSoup object is truthy whatever it holds.
fetch_page ==
    /\ script = "requests"
    /\ pc = "acquire"
    /\ \E outcome \in FetchOutcomes :
         IF outcome = "ok"
         THEN /\ \E d \in Documents : page' = d
              /\ loaded' = TRUE
              /\ acquisition' = "ok"
              /\ pc' = "title"
              /\ UNCHANGED <<stderr, returned>>
         ELSE /\ ReturnNone(FetchMessage(outcome))
              /\ acquisition' = "failed"
              /\ UNCHANGED <<page, loaded>>
    /\ UNCHANGED <<script, product_data, stdout, exit_code, faults, changes,
                   ExtractVars>>

\* Playwright script: sync_playwright(), chromium.launch, new_context, new_page
launch_browser ==
    /\ script = "playwright"
    /\ pc = "acquire"
    /\ \E ok \in BOOLEAN :
         IF ok
         THEN /\ pc' = "goto"
              /\ UNCHANGED <<stderr, returned, acquisition>>
         ELSE /\ ReturnNone("error: failed to scrape page")
              /\ acquisition' = "failed"
    /\ UNCHANGED <<script, page, product_data, stdout, exit_code, loaded,
                   faults, changes, ExtractVars>>

GotoOutcomes == {"ok", "PlaywrightTimeout", "Exception"}

\* print(f"navigating to: {url}") then page.goto(url, ...)
goto ==
    /\ script = "playwright"
    /\ pc = "goto"
    /\ stdout' = print_to(stdout, "navigating", <<>>)
    /\ \E outcome \in GotoOutcomes :
         IF outcome = "ok"
         THEN /\ \E d \in Documents : page' = d
              /\ loaded' = TRUE
              /\ pc' = "wait"
              /\ UNCHANGED <<stderr, returned, acquisition>>
         ELSE /\ ReturnNone(IF outcome = "PlaywrightTimeout"
                            THEN "error: page load timed out"
                            ELSE "error: failed to scrape page")
              /\ acquisition' = "failed"
              /\ UNCHANGED <<page, loaded>>
    /\ UNCHANGED <<script, product_data, exit_code, faults, changes, ExtractVars>>

\* page.wait_for_selector("#productTitle", timeout=30000): returns once the
\* title element is on the page, raises PlaywrightTimeout otherwise
wait_for_selector ==
    /\ script = "playwright"
    /\ pc = "wait"
    /\ IF page.title.found
       THEN /\ pc' = "settle"
            /\ acquisition' = "ok"
            /\ UNCHANGED <<stderr, returned>>
       ELSE /\ ReturnNone("error: page load timed out")
            /\ acquisition' = "failed"
    /\ UNCHANGED <<script, page, product_data, stdout, exit_code, loaded,
                   faults, changes, ExtractVars>>

\* page.wait_for_timeout(2000)
wait_for_timeout ==
    /\ script = "playwright"
    /\ pc = "settle"
    /\ pc' = "title"
    /\ UNCHANGED <<script, page, product_data, returned, stdout, stderr,
                   exit_code, loaded, acquisition, faults, changes, ExtractVars>>

\* the live page is rewritten by its own scripts while the run queries it
PageChange ==
    /\ script = "playwright"
    /\ pc \in {"wait", "settle", "url", "close"} \cup ExtractPcs
    /\ changes < MaxPageChanges
    /\ \E d \in Documents \ {page} : page' = d
    /\ changes' = changes + 1
    /\ UNCHANGED <<script, pc, product_data, returned, stdout, stderr, exit_code,
                   loaded, acquisition, faults, ExtractVars>>

\* a backend exception may still be injected into the extractor of this key
MayRaise(raises) == raises => Cardinality(faults) < MaxFaults

\* One entry of the dict literal: the extractor's value is stored under key,
\* or the extractor's exception escapes scrape_amazon_product and main(), and
\* the interpreter prints a traceback and exits with status 1.
ExtractStep(key, r, raised) ==
    /\ faults' = IF raised THEN faults \cup {key} ELSE faults
    /\ IF r.exc
       THEN /\ stderr' = print_to(stderr, "Traceback", <<>>)
            /\ exit_code' = 1
            /\ pc' = "exited"
            /\ UNCHANGED product_data
       ELSE /\ product_data' = Append(product_data, [key |-> key, val |-> r.val])
            /\ pc' = NextPc(key)
            /\ UNCHANGED <<stderr, exit_code>>
    /\ UNCHANGED <<script, page, returned, stdout, loaded, acquisition, changes,
                   ExtractVars>>

extract_title ==
    /\ pc = "title"
    /\ \E raises \in BOOLEAN :
         /\ MayRaise(raises)
         /\ ExtractStep("title",
                IF script = "requests" THEN soup_extract_title(page, raises)
                ELSE page_extract_title(page, raises), raises)

extract_price ==
    /\ pc = "price"
    /\ \E raises \in BOOLEAN :
         /\ MayRaise(raises)
         /\ ExtractStep("price",
                IF script = "requests" THEN soup_extract_price(page, raises)
                ELSE page_extract_price(page, raises), raises)

extract_avg_rating ==
    /\ pc = "avg_rating"
    /\ \E raises \in BOOLEAN :
         /\ MayRaise(raises)
         /\ ExtractStep("avg_rating",
                IF script = "requests" THEN soup_extract_avg_rating(page, raises)
                ELSE page_extract_avg_rating(page, raises), raises)

extract_review_count ==
    /\ pc = "review_count"
    /\ \E raises \in BOOLEAN :
         /\ MayRaise(raises)
         /\ ExtractStep("review_count",
                IF script = "requests" THEN soup_extract_review_count(page, raises)
                ELSE page_extract_review_count(page, raises), raises)

extract_availability ==
    /\ pc = "availability"
    /\ \E raises \in BOOLEAN :
         /\ MayRaise(raises)
         /\ ExtractStep("availability",
                IF script = "requests" THEN soup_extract_availability(page, raises)
                ELSE page_extract_availability(page, raises), raises)

extract_out_of_stock ==
    /\ pc = "out_of_stock"
    /\ \E raises \in BOOLEAN :
         /\ MayRaise(raises)
         /\ ExtractStep("out_of_stock",
                IF script = "requests" THEN soup_extract_out_of_stock(page, raises)
                ELSE page_extract_out_of_stock(page, raises), raises)

extract_description ==
    /\ pc = "description"
    /\ \E raises \in BOOLEAN :
         /\ MayRaise(raises)
         /\ ExtractStep("description",
                IF script = "requests" THEN soup_extract_description(page, raises)
                ELSE page_extract_description(page, raises), raises)

extract_features ==
    /\ pc = "features"
    /\ \E failAt \in 0..(IF script = "requests" THEN 1 ELSE Len(page.features) + 1) :
         /\ MayRaise(failAt # 0)
         /\ ExtractStep("features",
                IF script = "requests" THEN soup_extract_features(page, failAt)
                ELSE page_extract_features(page, failAt), failAt # 0)

extract_images ==
    /\ pc = "images"
    /\ \E failAt \in 0..(IF script = "requests" THEN 1 ELSE Len(page.thumbs) + 2) :
         /\ MayRaise(failAt # 0)
         /\ ExtractStep("images",
                IF script = "requests" THEN soup_extract_images(page, failAt)
                ELSE page_extract_images(page, failAt), failAt # 0)

extract_category ==
    /\ pc = "category"
    /\ \E raises \in BOOLEAN :
         /\ MayRaise(raises)
         /\ ExtractStep("category",
                IF script = "requests" THEN soup_extract_category(page, raises)
                ELSE page_extract_category(page, raises), raises)

extract_ships_from ==
    /\ pc = "ships_from"
    /\ \E raises \in BOOLEAN :
         /\ MayRaise(raises)
         /\ ExtractStep("ships_from",
                IF script = "requests" THEN soup_extract_ships_from(page, raises)
                ELSE page_extract_ships_from(page, raises), raises)

extract_sold_by ==
    /\ pc = "sold_by"
    /\ \E raises \in BOOLEAN :
         /\ MayRaise(raises)
         /\ ExtractStep("sold_by",
                IF script = "requests" THEN soup_extract_sold_by(page, raises)
                ELSE page_extract_sold_by(page, raises), raises)

\* "url": url closes the dict literal; the requests script then returns it,
\* the Playwright script goes on to browser.close()
finish_product_data ==
    /\ pc = "url"
    /\ product_data' = Append(product_data, [key |-> "url", val |-> TARGET_URL])
    /\ IF script = "requests"
       THEN returned' = "dict" /\ pc' = "emit"
       ELSE returned' = returned /\ pc' = "close"
    /\ UNCHANGED <<script, page, stdout, stderr, exit_code, loaded, acquisition,
                   faults, changes, ExtractVars>>

\* browser.close(); return product_data -- inside the outer try
browser_close ==
    /\ script = "playwright"
    /\ pc = "close"
    /\ \E ok \in BOOLEAN :
         IF ok
         THEN returned' = "dict" /\ pc' = "emit" /\ UNCHANGED stderr
         ELSE ReturnNone("error: failed to scrape page")
    /\ UNCHANGED <<script, page, product_data, stdout, exit_code, loaded,
                   acquisition, faults, changes, ExtractVars>>

\* json.dumps(product_data, indent=2, ensure_ascii=False): one object whose
\* members are the dict's items in insertion order
json_dumps(d) == d

\* main(): `if product_data:` prints the JSON, else reports and sys.exit(1)
main_emit ==
    /\ pc = "emit"
    /\ IF returned = "dict" /\ Len(product_data) > 0
       THEN /\ stdout' = print_to(stdout, "json", json_dumps(product_data))
            /\ UNCHANGED <<stderr, exit_code>>
       ELSE /\ stderr' = print_to(stderr, "failed to scrape product data", <<>>)
            /\ exit_code' = 1
            /\ UNCHANGED stdout
    /\ pc' = "exited"
    /\ UNCHANGED <<script, page, product_data, returned, loaded, acquisition,
                   faults, changes, ExtractVars>>

Next ==
    \/ main_start
    \/ fetch_page
    \/ launch_browser
    \/ goto
    \/ wait_for_selector
    \/ wait_for_timeout
    \/ PageChange
    \/ extract_title
    \/ extract_price
    \/ extract_avg_rating
    \/ extract_review_count
    \/ extract_availability
    \/ extract_out_of_stock
    \/ extract_description
    \/ extract_features
    \/ extract_images
    \/ extract_category
    \/ extract_ships_from
    \/ extract_sold_by
    \/ finish_product_data
    \/ browser_close
    \/ main_emit

Spec == Init /\ [][Next]_vars

ExtractSpec == Init /\ [][ExtractNext]_vars

(***************************************************************************)
(* Properties of the extractor calls (checked under ExtractSpec).          *)
(***************************************************************************)
Called(fn) == call.fn = fn
\* the call ran to its end without a backend exception
Undisturbed == call.fail = 0 /\ ~result.exc

NoDuplicates(list) ==
    \A i, j \in DOMAIN list : list[i] = list[j] => i = j

\* an absolute HTTP(S) URL begins with its scheme and "//"
IsAbsoluteHttpUrl(u) ==
    \/ startswith(u, <<"h","t","t","p",":","/","/">>)
    \/ startswith(u, <<"h","t","t","p","s",":","/","/">>)

AllDigits(s) == \A i \in DOMAIN s : IsDigit(s[i])
HasDigit(s) == \E i \in DOMAIN s : IsDigit(s[i])

\* C5: the list returned by extract_images holds no URL twice and holds only
\* absolute HTTP(S) URLs, for every combination of main-image attributes and
\* thumbnail src values.
C5_ImagesUniqueAbsolute ==
    (Called("extract_images") /\ ~result.exc) =>
        /\ NoDuplicates(result.val)
        /\ \A i \in DOMAIN result.val : IsAbsoluteHttpUrl(result.val[i])

\* C7: extract_review_count returns null when the element's text holds no
\* digit, and otherwise a non-empty string of digits only; "1,234 ratings"
\* gives "1234".
C7_ReviewCountIsNumericText ==
    (Called("extract_review_count") /\ Undisturbed
        /\ call.doc.review_count.found) =>
        LET text == strip(call.doc.review_count.text)
        IN  /\ ~HasDigit(text) => result.val = PyNone
            /\ HasDigit(text) =>
                 /\ ~result.val.none
                 /\ Len(result.val.str) > 0
                 /\ AllDigits(result.val.str)
            /\ text = ReviewSample => result.val = PyStr(<<"1","2","3","4">>)

\* the texts joined left to right, one delimiter between neighbours
RECURSIVE JoinedPath(_, _)
JoinedPath(texts, n) ==
    IF n = 1 THEN texts[1]
    ELSE JoinedPath(texts, n - 1) \o <<" ", ">", " ">> \o texts[n]

RECURSIVE TotalLen(_, _)
TotalLen(texts, n) == IF n = 0 THEN 0 ELSE TotalLen(texts, n - 1) + Len(texts[n])

\* C8: extract_category returns null when the breadcrumb selector matches no
\* element, and otherwise the stripped texts of all matched elements in
\* document order joined by " > ", with exactly (elements - 1) delimiters.
C8_CategoryJoinsBreadcrumbs ==
    (Called("extract_category") /\ Undisturbed) =>
        LET els == call.doc.category
            texts == [i \in 1..Len(els) |-> strip(els[i])]
        IN  /\ Len(els) = 0 => result.val = PyNone
            /\ Len(els) > 0 =>
                 /\ ~result.val.none
                 /\ result.val.str = JoinedPath(texts, Len(els))
                 /\ Len(result.val.str)
                      = TotalLen(texts, Len(els)) + 3 * (Len(els) - 1)

C8_Witness ==
    /\ Called("extract_category") /\ Undisturbed
    /\ call.doc.category = <<Electronics, Computers, Mice>>
    /\ result.val = PyStr(Electronics \o <<" ", ">", " ">> \o Computers
                          \o <<" ", ">", " ">> \o Mice)

ChosenMain(img) == IF ~img.hires.none /\ img.hires.str # <<>> THEN img.hires ELSE img.src
BeginsWithHttp(v) == ~v.none /\ startswith(v.str, HTTP)

\* the URLs offered to the list, in order: the chosen main value, then every
\* thumbnail src, size-rewritten -- each only when it begins with "http"
Candidates(doc) ==
    LET main == IF doc.main_img.found /\ BeginsWithHttp(ChosenMain(doc.main_img))
                THEN <<ChosenMain(doc.main_img).str>> ELSE <<>>
        kept == SelectSeq(doc.thumbs, BeginsWithHttp)
    IN  main \o [i \in 1..Len(kept) |-> re_sub_size(kept[i].str)]

\* the first occurrences of a list, in their order
FirstOccurrences(list) ==
    LET keep == {i \in DOMAIN list : \A j \in 1..(i - 1) : list[j] # list[i]}
        F[i \in 0..Len(list)] ==
            IF i = 0 THEN <<>>
            ELSE IF i \in keep THEN Append(F[i - 1], list[i]) ELSE F[i - 1]
    IN  F[Len(list)]

Emitted == {i \in DOMAIN stdout : stdout[i].kind = "json"}
KeysOf(d) == [i \in DOMAIN d |-> d[i].key]

\* a fully-keyed record: scalars null, sequences empty, out_of_stock false
IsEmptyRecord(d) ==
    /\ KeysOf(d) = FieldOrder
    /\ \A i \in DOMAIN d :
         CASE d[i].key \in {"features", "images"} -> d[i].val = <<>>
           [] d[i].key = "out_of_stock" -> d[i].val = FALSE
           [] d[i].key = "url" -> d[i].val = TARGET_URL
           [] OTHER -> d[i].val = PyNone

\* C1: when the document was delivered and no selector matches anything in
\* it, the run prints the fully-keyed empty record and ends with status 0.
C1_EmptyDocumentRecord ==
    (pc = "exited" /\ loaded /\ page = EmptyDocument /\ changes = 0
        /\ faults = {}) =>
        /\ exit_code = 0
        /\ \E i \in Emitted : IsEmptyRecord(stdout[i].data)

\* the value the extractor of key returns on doc when no query raises
Unfailed(key, doc) ==
    CASE key = "title" ->
           IF script = "requests" THEN soup_extract_title(doc, FALSE).val
           ELSE page_extract_title(doc, FALSE).val
      [] key = "price" ->
           IF script = "requests" THEN soup_extract_price(doc, FALSE).val
           ELSE page_extract_price(doc, FALSE).val
      [] key = "avg_rating" ->
           IF script = "requests" THEN soup_extract_avg_rating(doc, FALSE).val
           ELSE page_extract_avg_rating(doc, FALSE).val
      [] key = "review_count" ->
           IF script = "requests" THEN soup_extract_review_count(doc, FALSE).val
           ELSE page_extract_review_count(doc, FALSE).val
      [] key = "availability" ->
           IF script = "requests" THEN soup_extract_availability(doc, FALSE).val
           ELSE page_extract_availability(doc, FALSE).val
      [] key = "out_of_stock" ->
           IF script = "requests" THEN soup_extract_out_of_stock(doc, FALSE).val
           ELSE page_extract_out_of_stock(doc, FALSE).val
      [] key = "description" ->
           IF script = "requests" THEN soup_extract_description(doc, FALSE).val
           ELSE page_extract_description(doc, FALSE).val
      [] key = "features" ->
           IF script = "requests" THEN soup_extract_features(doc, 0).val
           ELSE page_extract_features(doc, 0).val
      [] key = "images" ->
           IF script = "requests" THEN soup_extract_images(doc, 0).val
           ELSE page_extract_images(doc, 0).val
      [] key = "category" ->
           IF script = "requests" THEN soup_extract_category(doc, FALSE).val
           ELSE page_extract_category(doc, FALSE).val
      [] key = "ships_from" ->
           IF script = "requests" THEN soup_extract_ships_from(doc, FALSE).val
           ELSE page_extract_ships_from(doc, FALSE).val
      [] key = "sold_by" ->
           IF script = "requests" THEN soup_extract_sold_by(doc, FALSE).val
           ELSE page_extract_sold_by(doc, FALSE).val
      [] OTHER -> TARGET_URL

\* the value a field degrades to when its query raised
Degraded(key, val) ==
    CASE key \in {"features", "images"} -> val = <<>>
      [] key = "out_of_stock" -> val = FALSE
      [] OTHER -> val = PyNone

\* C2: when the query of a field raises, that field is null (scalar) or empty
\* (features, images), every other field has the value it has without the
\* failure, the exception does not leave scrape_amazon_product, and the
\* record is still printed.  (Stated for a page that does not change, and
\* for a browser that closes without error.)
C2_FieldFailuresIsolated ==
    (faults # {} /\ changes = 0) =>
        /\ \A i \in DOMAIN product_data :
             LET e == product_data[i]
             IN  IF e.key \in faults THEN Degraded(e.key, e.val)
                 ELSE e.val = Unfailed(e.key, page)
        /\ (pc = "exited" /\ returned # "none") =>
             /\ exit_code = 0
             /\ \E i \in Emitted : stdout[i].data = product_data

\* C3: in every record printed, out_of_stock is true exactly when the
\* availability stored in that record is non-null and its lowercased text
\* contains one of the keywords.
C3_OutOfStockIffAvailability ==
    \A i \in Emitted :
        LET d == stdout[i].data
            availability == d[PositionOf("availability")].val
            out_of_stock == d[PositionOf("out_of_stock")].val
        IN  out_of_stock
              = (~availability.none /\ any_keyword(availability.str))

\* C4: when page acquisition fails, no extractor runs, no record is printed
\* on standard output, a message is on the error stream, and the process
\* ends with a nonzero status.
C4_AcquisitionFailure ==
    acquisition = "failed" =>
        /\ product_data = <<>>
        /\ faults = {}
        /\ pc \in {"emit", "exited"}
        /\ Emitted = {}
        /\ stderr # <<>>
        /\ pc = "exited" => (exit_code # 0 /\ Len(stderr) = 2)

\* a Playwright run whose navigation timed out has ended with status 1
C4_Witness ==
    /\ script = "playwright"
    /\ acquisition = "failed"
    /\ pc = "exited"
    /\ exit_code = 1
    /\ stderr[1].kind = "error: page load timed out"
    /\ stdout = <<[kind |-> "scraping", data |-> <<>>],
                  [kind |-> "navigating", data |-> <<>>]>>

\* C6: on a successful run standard output holds exactly one JSON object,
\* with the keys in record order; on a failed run the report is on the error
\* stream and the status is nonzero.
C6_StdoutIsOneJsonObject ==
    pc = "exited" =>
        IF exit_code = 0
        THEN /\ Len(stdout) = 1
             /\ stdout[1].kind = "json"
             /\ KeysOf(stdout[1].data) = FieldOrder
        ELSE /\ Emitted = {}
             /\ stderr # <<>>

====
